---- MODULE Spec2Model ----
\* Model of crates/sstring/src/string.rs: the immutable string type SString,
\* its two storage modes, its comparison / hashing / serde glue and its
\* conversions to and from String, &'static str, SStringRef and SStringCow.
EXTENDS Integers, Sequences, FiniteSets, TLC

VARIABLES
    a,        \* left operand of a comparison (an SString)
    b,        \* right operand of a comparison (SString, str, &str or String)
    src,      \* the texts a and b were constructed from
    list,     \* a vector of SString values handed to sort()
    res,      \* result of the last comparison / hash / sort
    val,      \* the value travelling through the conversions
    prev,     \* the value the last conversion was applied to
    prev2,    \* the value the conversion before that was applied to
    wire,     \* tokens written to the serializer
    op,       \* name of the last operation
    copies,   \* text copies performed by the last operation
    total,    \* text copies performed since the last input
    mats,     \* Copy-on-Write materializations since the last input
    shared,   \* an SString shared by concurrent readers
    orig,     \* the value `shared` was constructed as
    obs       \* what each reader observed last

vars == <<a, b, src, list, res, val, prev, prev2, wire, op, copies, total, mats, shared, orig, obs>>

\* ---------------------------------------------------------------- bounds
MaxLen == 2
MaxChar == 3
MaxCopies == 2
MaxMats == 2
NReaders == 2

\* ---------------------------------------------------------------- texts
\* A text is a sequence of bytes 1..MaxChar ("a" is <<1>>, "b" is <<2>>, ...).
Chars == 1..MaxChar
Texts == UNION {[1..n -> Chars] : n \in 0..MaxLen}
EmptyText == <<>>

\* A StdString is a heap buffer: an identity and its content.
StdString(id, t) == [buf |-> id, text |-> t]
NoString == [buf |-> 0, text |-> EmptyText]

\* The other buffer id: the previous value is consumed or dropped by then.
Fresh(v) == IF v.s.buf = 1 THEN 2 ELSE 1

\* str::to_owned / String::from(&str): copies the text into a new buffer
str_to_owned(t, id) == StdString(id, t)

\* ---------------------------------------------------------------- SString
Owned(s) == [ty |-> "SString", tag |-> "Owned", s |-> s, static |-> EmptyText]
Singleton(t) == [ty |-> "SString", tag |-> "Singleton", s |-> NoString, static |-> t]

\* plain values that are not SString
StringVal(s) == [ty |-> "String", tag |-> "Owned", s |-> s, static |-> EmptyText]
StaticStr(t) == [ty |-> "static str", tag |-> "Singleton", s |-> NoString, static |-> t]
BorrowedStr(s) == [ty |-> "str", tag |-> "Borrowed", s |-> s, static |-> EmptyText]
NoValue == [ty |-> "None", tag |-> "None", s |-> NoString, static |-> EmptyText]

\* the text of a plain str / &str / String operand
PlainText(v) == IF v.ty = "static str" THEN v.static ELSE v.s.text

as_str(self) == IF self.tag = "Owned" THEN self.s.text ELSE self.static

singleton(other) == Singleton(other)
From_static_str_owned(other) == Owned(StdString(1, other))
From_static_str(other) == Singleton(other)
From_String(other) == Owned(other)
Default_allocating == Owned(StdString(1, EmptyText))
Default == From_static_str(EmptyText)
new == Default

\* SString::owned(impl Into<String>): a String is moved, a &str is copied
owned(other, id) ==
    IF other.ty = "String"
    THEN [out |-> Owned(other.s), copies |-> 0]
    ELSE [out |-> Owned(str_to_owned(PlainText(other), id)), copies |-> 1]

\* ---------------------------------------------------------------- str
\* Ord for str: lexicographic comparison of the bytes
RECURSIVE StrCmp(_, _)
StrCmp(s, t) ==
    IF s = <<>> /\ t = <<>> THEN "Equal"
    ELSE IF s = <<>> THEN "Less"
    ELSE IF t = <<>> THEN "Greater"
    ELSE IF Head(s) < Head(t) THEN "Less"
    ELSE IF Head(s) > Head(t) THEN "Greater"
    ELSE StrCmp(Tail(s), Tail(t))

\* Hash for str: the bytes, then 0xff, written to the hasher
StrHash(t) == t \o <<255>>

\* ---------------------------------------------------------------- derived
\* What #[derive(PartialEq, PartialOrd, Ord, Hash)] gives SStringInner
InnerEq(x, y) == x.tag = y.tag /\ as_str(x) = as_str(y)
Discriminant(x) == IF x.tag = "Owned" THEN 0 ELSE 1
InnerCmp(x, y) ==
    IF Discriminant(x) < Discriminant(y) THEN "Less"
    ELSE IF Discriminant(x) > Discriminant(y) THEN "Greater"
    ELSE StrCmp(as_str(x), as_str(y))
InnerHash(x) == <<Discriminant(x)>> \o StrHash(as_str(x))

\* ---------------------------------------------------------------- traits
eq_derived(self, other) ==
    IF other.ty = "SString" THEN InnerEq(self, other) ELSE as_str(self) = PlainText(other)
eq(self, other) ==
    IF other.ty = "SString"
    THEN as_str(self) = as_str(other)
    ELSE as_str(self) = PlainText(other)

cmp_derived(self, other) == InnerCmp(self, other)
cmp(self, other) == StrCmp(as_str(self), as_str(other))

partial_cmp(self, other) == <<"Some", StrCmp(as_str(self), as_str(other))>>

hash(self) == StrHash(as_str(self))

\* slice::sort on a Vec<SString>: a stable insertion sort driven by Ord::cmp
RECURSIVE Insert(_, _)
Insert(x, sorted) ==
    IF sorted = <<>> THEN <<x>>
    ELSE IF cmp(x, Head(sorted)) = "Less" THEN <<x>> \o sorted
    ELSE <<Head(sorted)>> \o Insert(x, Tail(sorted))
RECURSIVE InsertAll(_, _)
InsertAll(todo, sorted) ==
    IF todo = <<>> THEN sorted ELSE InsertAll(Tail(todo), Insert(Head(todo), sorted))
sort(v) == InsertAll(v, <<>>)

\* ---------------------------------------------------------------- comparisons
Readers == 1..NReaders
NoObs == [op |-> "none", pc |-> "idle", tag |-> "None", out |-> <<>>]

ConvIdle ==
    /\ val = NoValue /\ prev = NoValue /\ prev2 = NoValue /\ wire = <<>>
    /\ copies = 0 /\ total = 0 /\ mats = 0
CmpIdle == a = NoValue /\ b = NoValue /\ src = <<>> /\ list = <<>> /\ res = <<>>
ReadIdle == shared = NoValue /\ orig = NoValue /\ obs = [r \in Readers |-> NoObs]

\* an SString built in the given storage mode from text t
Make(mode, t) == IF mode = "Owned" THEN From_String(StdString(1, t)) ELSE singleton(t)
\* a right-hand operand: an SString, or a plain str, &str or String
MakeOperand(kind, t) ==
    CASE kind = "Owned" -> From_String(StdString(2, t))
      [] kind = "Singleton" -> singleton(t)
      [] kind = "String" -> StringVal(StdString(2, t))
      [] kind = "static str" -> StaticStr(t)
      [] OTHER -> BorrowedStr(StdString(2, t))

Modes == {"Owned", "Singleton"}
OperandKinds == Modes \cup {"String", "static str", "str"}
SortItems == {Make(m, <<c>>) : m \in Modes, c \in Chars}

InitCmp ==
    /\ \/ /\ \E ma \in Modes, ta \in Texts, kb \in OperandKinds, tb \in Texts :
                /\ a = Make(ma, ta)
                /\ b = MakeOperand(kb, tb)
                /\ src = <<ta, tb>>
          /\ list = <<>>
       \/ /\ a = new /\ b = new /\ src = <<EmptyText, EmptyText>>
          /\ list \in [1..3 -> SortItems]
    /\ res = <<>>
    /\ op = "init"
    /\ ConvIdle /\ ReadIdle

CmpFrame ==
    UNCHANGED <<a, b, src, list, val, prev, prev2, wire, copies, total, mats, shared, orig, obs>>

\* a == b, for b an SString, a str, a &str or a String
Do_eq == list = <<>> /\ op' = "eq" /\ res' = eq(a, b) /\ CmpFrame
Do_cmp == list = <<>> /\ b.ty = "SString" /\ op' = "cmp" /\ res' = cmp(a, b) /\ CmpFrame
Do_partial_cmp ==
    list = <<>> /\ b.ty = "SString" /\ op' = "partial_cmp" /\ res' = partial_cmp(a, b) /\ CmpFrame
Do_hash ==
    list = <<>> /\ b.ty = "SString" /\ op' = "hash" /\ res' = <<hash(a), hash(b)>> /\ CmpFrame
Do_sort == list # <<>> /\ op' = "sort" /\ res' = sort(list) /\ CmpFrame

NextCmp == Do_eq \/ Do_cmp \/ Do_partial_cmp \/ Do_hash \/ Do_sort
SpecCmp == InitCmp /\ [][NextCmp]_vars

\* C1: equality depends only on the text content, never on the storage mode:
\* a == b holds exactly when the texts a and b were built from are equal, for b
\* an SString of either mode or a plain str, &str or String.
C1_EqIsContentEquality ==
    op = "eq" => /\ res = (src[1] = src[2])
                 /\ res = (as_str(a) = (IF b.ty = "SString" THEN as_str(b) ELSE PlainText(b)))
C1_Witness ==
    /\ op = "eq" /\ res = TRUE
    /\ a.tag = "Singleton" /\ b.ty = "SString" /\ b.tag = "Owned"
    /\ src[1] # EmptyText

Texts_of(v) == [i \in 1..Len(v) |-> as_str(v[i])]
IsSorted(ts) == \A i \in 1..(Len(ts) - 1) : StrCmp(ts[i], ts[i + 1]) # "Greater"
SameBag(v, w) ==
    /\ Len(v) = Len(w)
    /\ \A x \in {v[i] : i \in 1..Len(v)} :
          Cardinality({i \in 1..Len(v) : v[i] = x}) = Cardinality({i \in 1..Len(w) : w[i] = x})

\* C2: cmp and partial_cmp are the ordering of the texts, equal values hash
\* alike, and sorting orders by text whatever the storage modes: sorting
\* {owned("b"), singleton("a"), owned("c")} yields a, b, c.
C2_OrderAndHashByContent ==
    /\ op = "cmp" => res = StrCmp(src[1], src[2])
    /\ op = "partial_cmp" => res = <<"Some", StrCmp(src[1], src[2])>>
    /\ op = "hash" => (eq(a, b) => res[1] = res[2])
    /\ op = "sort" =>
          /\ IsSorted(Texts_of(res))
          /\ SameBag(list, res)
          /\ list = <<Make("Owned", <<2>>), Make("Singleton", <<1>>), Make("Owned", <<3>>)>>
                => Texts_of(res) = <<(<<1>>), (<<2>>), (<<3>>)>>
C2_Witness ==
    /\ op = "sort"
    /\ list = <<Make("Owned", <<2>>), Make("Singleton", <<1>>), Make("Owned", <<3>>)>>
    /\ Texts_of(res) = <<(<<1>>), (<<2>>), (<<3>>)>>

\* ---------------------------------------------------------------- SStringRef
\* The Borrowed String View: a slice borrowed from a buffer, or a permanent one.
SStringRef_borrow(s) == [ty |-> "SStringRef", tag |-> "Borrowed", s |-> s, static |-> EmptyText]
SStringRef_singleton(t) ==
    [ty |-> "SStringRef", tag |-> "Singleton", s |-> NoString, static |-> t]
ViewText(v) == IF v.tag = "Borrowed" THEN v.s.text ELSE v.static

\* to_owned: copies when borrowed, reuses the reference when permanent
SStringRef_to_owned(self, id) ==
    IF self.tag = "Borrowed"
    THEN [out |-> Owned(str_to_owned(self.s.text, id)), copies |-> 1]
    ELSE [out |-> Singleton(self.static), copies |-> 0]

\* ---------------------------------------------------------------- SStringCow
\* The Copy-on-Write value: a borrowed view or an owned buffer.
SStringCow_borrowed(view) ==
    [ty |-> "SStringCow", tag |-> "Borrowed",
     s |-> StdString(view.s.buf, ViewText(view)), static |-> EmptyText]
SStringCow_owned(s) == [ty |-> "SStringCow", tag |-> "Owned", s |-> s, static |-> EmptyText]

\* into_owned: one copy when borrowed, the buffer itself when owned
SStringCow_into_owned(self, id) ==
    IF self.tag = "Borrowed"
    THEN [out |-> Owned(str_to_owned(self.s.text, id)), copies |-> 1]
    ELSE [out |-> Owned(self.s), copies |-> 0]

\* clone: the view when borrowed, a duplicate of the buffer when owned
SStringCow_clone(self, id) ==
    IF self.tag = "Borrowed"
    THEN [out |-> self, copies |-> 0]
    ELSE [out |-> SStringCow_owned(str_to_owned(self.s.text, id)), copies |-> 1]

\* ---------------------------------------------------------------- conversions
as_ref_always_borrow(self) ==
    IF self.tag = "Owned"
    THEN SStringRef_borrow(self.s)
    ELSE SStringRef_borrow(StdString(0, self.static))
as_ref(self) ==
    IF self.tag = "Owned" THEN SStringRef_borrow(self.s) ELSE SStringRef_singleton(self.static)

into_mut_cloning(self, id) ==
    [out |-> StringVal(str_to_owned(as_str(self), id)), copies |-> 1]
into_mut(self, id) ==
    IF self.tag = "Owned"
    THEN [out |-> StringVal(self.s), copies |-> 0]
    ELSE [out |-> StringVal(str_to_owned(self.static, id)), copies |-> 1]

From_SStringRef(other, id) == SStringRef_to_owned(other, id)
From_ref_SStringRef(other, id) == SStringRef_to_owned(other, id)

From_ref_SStringCow(other, id) ==
    LET c == SStringCow_clone(other, id)
        r == SStringCow_into_owned(c.out, id)
    IN  [out |-> r.out, copies |-> c.copies + r.copies]
From_SStringCow_cloning(other, id) ==
    LET c == SStringCow_clone(other, id)
        r == SStringCow_into_owned(c.out, id)
    IN  [out |-> r.out, copies |-> c.copies + r.copies]
From_SStringCow(other, id) == SStringCow_into_owned(other, id)

\* ---------------------------------------------------------------- serde
StrToken(t) == [tok |-> "str", v |-> t]
UnitToken == [tok |-> "unit", v |-> EmptyText]

serialize_tagged(data) ==
    <<[tok |-> "variant", v |-> EmptyText], StrToken(as_str(data))>>
\* serializer.serialize_str(s): one string scalar
serialize(data) ==
    LET s == IF data.tag = "Owned" THEN data.s.text ELSE data.static
    IN  <<StrToken(s)>>

deserialize_static(tokens, id) ==
    IF tokens # <<>> /\ Head(tokens).tok = "str"
    THEN [ok |-> TRUE, out |-> Singleton(Head(tokens).v)]
    ELSE [ok |-> FALSE, out |-> NoValue]
\* StdString::deserialize(deserializer)?, then Ok(SStringInner::Owned(s))
deserialize(tokens, id) ==
    IF tokens # <<>> /\ Head(tokens).tok = "str"
    THEN [ok |-> TRUE, out |-> Owned(StdString(id, Head(tokens).v))]
    ELSE [ok |-> FALSE, out |-> NoValue]

\* ---------------------------------------------------------------- pipeline
Min(x, y) == IF x < y THEN x ELSE y

Init ==
    /\ val = NoValue /\ prev = NoValue /\ prev2 = NoValue /\ wire = <<>>
    /\ op = "init" /\ copies = 0 /\ total = 0 /\ mats = 0
    /\ CmpIdle /\ ReadIdle

ConvFrame == UNCHANGED <<a, b, src, list, res, shared, orig, obs>>

\* a value enters from the caller: nothing has been converted yet
Entered(name) ==
    /\ op = "init"
    /\ prev' = NoValue /\ prev2' = NoValue /\ wire' = <<>>
    /\ op' = name /\ copies' = 0 /\ total' = 0 /\ mats' = 0
    /\ ConvFrame

\* a conversion consumed (or viewed) val and produced r.out with r.copies copies
Step(name, r, m) ==
    /\ total + r.copies <= MaxCopies
    /\ val' = r.out /\ prev' = val /\ prev2' = prev
    /\ op' = name /\ copies' = r.copies /\ total' = total + r.copies
    /\ mats' = Min(mats + m, MaxMats)
    /\ UNCHANGED wire
    /\ ConvFrame

NoCopy(v) == [out |-> v, copies |-> 0]

Input_String == \E t \in Texts : val' = StringVal(StdString(1, t)) /\ Entered("input")
Input_static_str == \E t \in Texts : val' = StaticStr(t) /\ Entered("input")
Input_str == \E t \in Texts : val' = BorrowedStr(StdString(1, t)) /\ Entered("input")
Input_wire ==
    \E w \in {<<StrToken(t)>> : t \in Texts} \cup {<<UnitToken>>} :
        /\ op = "init"
        /\ val' = NoValue /\ prev' = NoValue /\ prev2' = NoValue /\ wire' = w
        /\ op' = "input" /\ copies' = 0 /\ total' = 0 /\ mats' = 0
        /\ ConvFrame

Do_new == val' = new /\ Entered("new")
Do_owned ==
    /\ val.ty \in {"String", "static str", "str"}
    /\ Step("owned", owned(val, Fresh(val)), 0)
Do_singleton == val.ty = "static str" /\ Step("singleton", NoCopy(singleton(val.static)), 0)
Do_From_String == val.ty = "String" /\ Step("From_String", NoCopy(From_String(val.s)), 0)
Do_From_static_str ==
    val.ty = "static str" /\ Step("From_static_str", NoCopy(From_static_str(val.static)), 0)
Do_as_ref == val.ty = "SString" /\ Step("as_ref", NoCopy(as_ref(val)), 0)
Do_into_mut == val.ty = "SString" /\ Step("into_mut", into_mut(val, Fresh(val)), 0)

Do_SStringRef_borrow ==
    val.ty = "str" /\ Step("SStringRef_borrow", NoCopy(SStringRef_borrow(val.s)), 0)
Do_SStringRef_singleton ==
    /\ val.ty = "static str"
    /\ Step("SStringRef_singleton", NoCopy(SStringRef_singleton(val.static)), 0)
Do_to_owned ==
    val.ty = "SStringRef" /\ Step("to_owned", SStringRef_to_owned(val, Fresh(val)), 0)
Do_From_SStringRef ==
    val.ty = "SStringRef" /\ Step("From_SStringRef", From_SStringRef(val, Fresh(val)), 0)
Do_From_ref_SStringRef ==
    /\ val.ty = "SStringRef"
    /\ Step("From_ref_SStringRef", From_ref_SStringRef(val, Fresh(val)), 0)

Do_SStringCow_borrowed ==
    val.ty = "SStringRef" /\ Step("SStringCow_borrowed", NoCopy(SStringCow_borrowed(val)), 0)
Do_SStringCow_owned ==
    /\ val.ty \in {"String", "SString"} /\ val.tag = "Owned"
    /\ Step("SStringCow_owned", NoCopy(SStringCow_owned(val.s)), 0)
Do_From_SStringCow ==
    val.ty = "SStringCow" /\ Step("From_SStringCow", From_SStringCow(val, Fresh(val)), 1)
Do_From_ref_SStringCow ==
    /\ val.ty = "SStringCow"
    /\ Step("From_ref_SStringCow", From_ref_SStringCow(val, Fresh(val)), 1)

\* &self: the value stays, the serializer receives the tokens
Do_serialize ==
    /\ val.ty = "SString"
    /\ wire' = serialize(val)
    /\ op' = "serialize" /\ prev' = val /\ prev2' = prev /\ copies' = 0
    /\ UNCHANGED <<val, total, mats>>
    /\ ConvFrame
Do_deserialize ==
    /\ wire # <<>>
    /\ total + 1 <= MaxCopies
    /\ LET r == deserialize(wire, Fresh(val))
       IN  IF r.ok
           THEN /\ val' = r.out /\ op' = "deserialize"
                /\ copies' = 1 /\ total' = total + 1
           ELSE /\ val' = NoValue /\ op' = "deserialize_err"
                /\ copies' = 0 /\ total' = total
    /\ prev' = val /\ prev2' = prev
    /\ UNCHANGED <<wire, mats>>
    /\ ConvFrame

Next ==
    \/ Input_String \/ Input_static_str \/ Input_str \/ Input_wire
    \/ Do_new \/ Do_owned \/ Do_singleton \/ Do_From_String \/ Do_From_static_str
    \/ Do_as_ref \/ Do_into_mut
    \/ Do_SStringRef_borrow \/ Do_SStringRef_singleton
    \/ Do_to_owned \/ Do_From_SStringRef \/ Do_From_ref_SStringRef
    \/ Do_SStringCow_borrowed \/ Do_SStringCow_owned
    \/ Do_From_SStringCow \/ Do_From_ref_SStringCow
    \/ Do_serialize \/ Do_deserialize
Spec == Init /\ [][Next]_vars

\* ---------------------------------------------------------------- claims
\* C3: serialize emits exactly one string scalar, the value's text, with no
\* storage-mode metadata; a successful deserialize of it yields that text in
\* owned-buffer mode, also when the value serialized was in Singleton mode.
C3_SerdeRoundTrip ==
    /\ op = "serialize" =>
          /\ Len(wire) = 1
          /\ wire[1] = StrToken(as_str(val))
    /\ op = "deserialize" =>
          /\ val.ty = "SString" /\ val.tag = "Owned"
          /\ wire = <<StrToken(as_str(val))>>
          /\ prev.ty = "SString" => as_str(val) = as_str(prev)
C3_Witness ==
    /\ op = "deserialize"
    /\ prev.ty = "SString" /\ prev.tag = "Singleton" /\ prev.static # EmptyText
    /\ wire = serialize(prev)
    /\ val.tag = "Owned" /\ val.s.text = prev.static

IsMaterialize == op \in {"From_SStringCow", "From_ref_SStringCow"}

\* C4 as stated: both SString::from(SStringCow) and SString::from(&SStringCow)
\* keep the content, copy once from a borrowed view and never from an owned
\* buffer.
C4_Original ==
    IsMaterialize =>
        /\ as_str(val) = prev.s.text
        /\ prev.tag = "Borrowed" => copies = 1
        /\ prev.tag = "Owned" => copies = 0

\* C4 amended: both conversions keep the content and copy exactly once from a
\* borrowed view; SString::from(SStringCow) takes an owned buffer over with no
\* copy, so materializing an already-owned value again copies nothing more,
\* while SString::from(&SStringCow) clones first and so copies an owned
\* buffer exactly once.
C4_MaterializeCopies ==
    /\ IsMaterialize =>
          /\ val.ty = "SString" /\ val.tag = "Owned"
          /\ as_str(val) = prev.s.text
          /\ prev.tag = "Borrowed" => copies = 1 /\ val.s.buf # prev.s.buf
    /\ op = "From_SStringCow" /\ prev.tag = "Owned" => copies = 0 /\ val.s = prev.s
    /\ op = "From_ref_SStringCow" /\ prev.tag = "Owned" =>
          copies = 1 /\ val.s.buf # prev.s.buf
C4_Witness ==
    /\ op = "From_SStringCow" /\ prev.tag = "Owned"
    /\ mats = 2 /\ total = 1 /\ copies = 0
    /\ as_str(val) # EmptyText

\* C5: into_mut returns a buffer holding the value's text; an owned-mode value
\* hands over its own buffer with no copy, a Singleton value is copied once.
C5_IntoMut ==
    op = "into_mut" =>
        /\ val.ty = "String"
        /\ val.s.text = as_str(prev)
        /\ prev.tag = "Owned" => copies = 0 /\ val.s = prev.s
        /\ prev.tag = "Singleton" => copies = 1
C5_Witness ==
    /\ op = "into_mut" /\ prev.tag = "Owned" /\ prev.s.text # EmptyText
    /\ val.s = prev.s /\ copies = 0

FromView == op \in {"to_owned", "From_SStringRef", "From_ref_SStringRef"}
Ok == <<3, 2>>

\* C6: v.as_ref() materialized again equals v: as_ref gives a borrowed view of
\* an owned value and a singleton view of a Singleton value, so a Singleton
\* value comes back Singleton with no copy and an owned value comes back
\* through exactly one copy; the result equals owned(text) and the plain text.
C6_ViewRoundTrip ==
    /\ op = "as_ref" =>
          /\ prev.tag = "Owned" => val.tag = "Borrowed" /\ val.s = prev.s
          /\ prev.tag = "Singleton" => val.tag = "Singleton" /\ val.static = prev.static
    /\ FromView /\ prev2.ty = "SString" =>
          /\ eq(val, prev2) /\ eq(prev2, val)
          /\ eq(val, Owned(StdString(1, as_str(prev2))))
          /\ eq(val, BorrowedStr(StdString(1, as_str(prev2))))
          /\ prev2.tag = "Singleton" => val.tag = "Singleton" /\ copies = 0
          /\ prev2.tag = "Owned" => val.tag = "Owned" /\ copies = 1
          /\ prev2 = singleton(Ok) =>
                /\ eq(val, Owned(StdString(1, Ok)))
                /\ eq(Owned(StdString(1, Ok)), StaticStr(Ok))
                /\ eq(val, StaticStr(Ok))
C6_Witness ==
    /\ op = "to_owned" /\ prev2 = singleton(Ok)
    /\ val.tag = "Singleton" /\ copies = 0
    /\ eq(val, Owned(StdString(1, Ok)))

\* C7: new() / Default holds "" (length 0) in Singleton mode, so nothing is
\* allocated, and equals owned("").
C7_NewIsEmptySingleton ==
    op = "new" =>
        /\ as_str(val) = EmptyText /\ Len(as_str(val)) = 0
        /\ val.ty = "SString" /\ val.tag = "Singleton" /\ val.s = NoString
        /\ eq(val, Owned(StdString(1, EmptyText)))
        /\ eq(Owned(StdString(1, EmptyText)), val)
C7_Witness == op = "new" /\ val.tag = "Singleton" /\ as_str(val) = EmptyText

\* C8: From<String> and owned(String) give owned-buffer mode holding that same
\* buffer; From<&'static str> and singleton give Singleton mode; neither copies
\* and as_str() of the result is the input text.
C8_ConstructionFixesMode ==
    /\ op \in {"From_String", "owned"} /\ prev.ty = "String" =>
          /\ val.ty = "SString" /\ val.tag = "Owned"
          /\ val.s = prev.s /\ copies = 0
          /\ as_str(val) = prev.s.text
    /\ op \in {"From_static_str", "singleton"} =>
          /\ val.ty = "SString" /\ val.tag = "Singleton"
          /\ copies = 0
          /\ as_str(val) = prev.static
C8_Witness ==
    /\ op = "From_static_str" /\ prev.static # EmptyText
    /\ val.tag = "Singleton" /\ as_str(val) = prev.static

\* the chain permanent -> borrowed -> owned
Rank(v) == CASE v.tag = "Singleton" -> 0 [] v.tag = "Borrowed" -> 1 [] OTHER -> 2
Conversions ==
    {"owned", "singleton", "From_String", "From_static_str", "as_ref", "into_mut",
     "SStringRef_borrow", "SStringRef_singleton", "to_owned", "From_SStringRef",
     "From_ref_SStringRef", "SStringCow_borrowed", "SStringCow_owned",
     "From_SStringCow", "From_ref_SStringCow", "serialize", "deserialize"}
IsConversion == op \in Conversions /\ prev.ty # "None"

\* C9 as stated: no conversion, as_ref included, moves a value left on the chain.
C9_Original == IsConversion => Rank(val) >= Rank(prev)

\* C9 amended: every conversion except as_ref moves the storage mode right or
\* leaves it; as_ref leaves a Singleton value Singleton and turns an owned
\* value into a borrowed view of it, the one step left on the chain.
C9_OnlyAsRefMovesLeft ==
    /\ IsConversion /\ op # "as_ref" => Rank(val) >= Rank(prev)
    /\ op = "as_ref" =>
          /\ prev.tag = "Singleton" => Rank(val) = Rank(prev)
          /\ prev.tag = "Owned" => val.tag = "Borrowed" /\ Rank(val) < Rank(prev)
C9_Witness ==
    /\ op = "deserialize" /\ prev.ty = "SString" /\ prev.tag = "Singleton"
    /\ wire = serialize(prev)
    /\ Rank(val) > Rank(prev)

\* ---------------------------------------------------------------- readers
\* Readers hold &shared. Every read-only method matches on the storage tag and
\* then reads the payload of that variant: two reads another reader's steps
\* may fall between.
ReadTexts == {t \in Texts : Len(t) <= 1}
Probes == {singleton(EmptyText), Owned(StdString(2, <<1>>))}

InitRead ==
    /\ \E m \in Modes, t \in ReadTexts : shared = Make(m, t) /\ orig = Make(m, t)
    /\ obs = [r \in Readers |-> NoObs]
    /\ op = "init"
    /\ ConvIdle /\ CmpIdle

ReadFrame ==
    UNCHANGED <<a, b, src, list, res, val, prev, prev2, wire, op, copies, total, mats, orig>>

\* the payload the variant matched by reader r holds now
Payload(r) == IF obs[r].tag = "Owned" THEN shared.s.text ELSE shared.static
Matched(r) == obs[r].pc = "matched"
Observe(r, name, out) ==
    /\ obs' = [obs EXCEPT ![r] = [op |-> name, pc |-> "done", tag |-> obs[r].tag, out |-> out]]
    /\ UNCHANGED shared
    /\ ReadFrame

\* match self.inner { Owned(ref s) => .., Singleton(ref s) => .. }
Read_match(r) ==
    /\ obs[r].pc # "matched"
    /\ obs' = [obs EXCEPT ![r] = [op |-> "match", pc |-> "matched", tag |-> shared.tag, out |-> <<>>]]
    /\ UNCHANGED shared
    /\ ReadFrame

Read_as_str(r) == Matched(r) /\ Observe(r, "as_str", Payload(r))
Read_as_ref_promoting(r) ==
    /\ Matched(r)
    /\ obs' = [obs EXCEPT ![r] = [op |-> "as_ref", pc |-> "done", tag |-> obs[r].tag,
                                  out |-> SStringRef_borrow(StdString(1, Payload(r)))]]
    /\ shared' = Owned(StdString(1, Payload(r)))
    /\ ReadFrame
Read_as_ref(r) ==
    /\ Matched(r)
    /\ Observe(r, "as_ref",
               IF obs[r].tag = "Owned"
               THEN SStringRef_borrow(shared.s)
               ELSE SStringRef_singleton(shared.static))
Read_deref(r) == Matched(r) /\ Observe(r, "deref", Payload(r))
Read_eq(r) ==
    /\ Matched(r)
    /\ \E p \in Probes : Observe(r, "eq", <<p, Payload(r) = as_str(p)>>)
Read_cmp(r) ==
    /\ Matched(r)
    /\ \E p \in Probes : Observe(r, "cmp", <<p, StrCmp(Payload(r), as_str(p))>>)
Read_partial_cmp(r) ==
    /\ Matched(r)
    /\ \E p \in Probes :
          Observe(r, "partial_cmp", <<p, <<"Some", StrCmp(Payload(r), as_str(p))>> >>)
Read_hash(r) == Matched(r) /\ Observe(r, "hash", StrHash(Payload(r)))
\* fmt::Display::fmt(self.as_str(), f), the formatter carrying no width or precision
Read_fmt(r) == Matched(r) /\ Observe(r, "fmt", Payload(r))
Read_AsRef_str(r) == Matched(r) /\ Observe(r, "AsRef_str", Payload(r))
Read_AsRef_bytes(r) == Matched(r) /\ Observe(r, "AsRef_bytes", Payload(r))
Read_borrow(r) == Matched(r) /\ Observe(r, "borrow", Payload(r))
Read_serialize(r) ==
    Matched(r) /\ Observe(r, "serialize", <<StrToken(Payload(r))>>)

NextRead ==
    \E r \in Readers :
        \/ Read_match(r)
        \/ Read_as_str(r) \/ Read_as_ref(r) \/ Read_deref(r)
        \/ Read_eq(r) \/ Read_cmp(r) \/ Read_partial_cmp(r) \/ Read_hash(r)
        \/ Read_fmt(r) \/ Read_AsRef_str(r) \/ Read_AsRef_bytes(r) \/ Read_borrow(r)
        \/ Read_serialize(r)
SpecRead == InitRead /\ [][NextRead]_vars

\* the text an observation shows, or what it says of the text
ObservedOk(o, t) ==
    CASE o.op \in {"as_str", "deref", "fmt", "AsRef_str", "AsRef_bytes", "borrow"} -> o.out = t
      [] o.op = "as_ref" -> ViewText(o.out) = t /\ o.out.tag = (IF orig.tag = "Owned" THEN "Borrowed" ELSE "Singleton")
      [] o.op = "eq" -> o.out[2] = (t = as_str(o.out[1]))
      [] o.op = "cmp" -> o.out[2] = StrCmp(t, as_str(o.out[1]))
      [] o.op = "partial_cmp" -> o.out[2] = <<"Some", StrCmp(t, as_str(o.out[1]))>>
      [] o.op = "hash" -> o.out = StrHash(t)
      [] o.op = "serialize" -> o.out = <<StrToken(t)>>
      [] OTHER -> FALSE

\* C10: under any interleaving of readers applying the non-consuming
\* operations to one value, its text and its storage mode stay as constructed
\* and every reader observes that same text.
C10_ReadersLeaveValueUnchanged ==
    /\ shared = orig
    /\ as_str(shared) = as_str(orig) /\ shared.tag = orig.tag
    /\ \A r \in Readers : obs[r].op # "none" =>
          /\ obs[r].tag = orig.tag
          /\ obs[r].pc = "done" => ObservedOk(obs[r], as_str(orig))
C10_Witness ==
    /\ as_str(orig) # EmptyText /\ orig.tag = "Owned"
    /\ \E r1, r2 \in Readers :
          /\ r1 # r2
          /\ obs[r1].op = "as_ref" /\ obs[r1].pc = "done"
          /\ obs[r2].op = "serialize" /\ obs[r2].pc = "done"
          /\ obs[r2].out = <<StrToken(ViewText(obs[r1].out))>>

====
